---- MODULE Spec2Model ----
(***************************************************************************)
(* Model of the ADGM document reviewer: docx_utils.py (paragraph           *)
(* extraction, annotation writer), checker.py (rule engine, grounded       *)
(* reviewer), rag.py (retrieval index) and app.py (classifier, process     *)
(* inference, orchestrator).                                               *)
(*                                                                         *)
(* Text is a sequence of symbols (tokens): words, punctuation and the      *)
(* whitespace symbols " ", "\t", "\n".  A Python str is such a sequence;   *)
(* concatenation is \o, a substring is a contiguous sub-sequence.          *)
(* None is <<>> and an int n held in an optional slot is <<n>>.            *)
(***************************************************************************)
EXTENDS Integers, Sequences, FiniteSets, TLC

VARIABLES
    \* ---- insert_comment_simulation (docx_utils.py) ----
    w_pc,          \* "loop" | "saved"
    w_src,         \* the document stored at in_path (native paragraph list)
    w_doc,         \* doc = Document(in_path), mutated by the loop
    w_anns,        \* the annotations argument
    w_i,           \* position of the for-loop in annotations (1-based)
    w_saved,       \* the document stored at out_path by doc.save
    \* ---- extract_structured_text / heuristic_checks ----
    r_pc,          \* "start" | "extracted" | "checked" | "rechecked"
    r_native,      \* doc.paragraphs of the document at path
    r_paras,       \* result of extract_structured_text
    r_issues,      \* result of heuristic_checks(paras)
    r_issues2,     \* result of a second heuristic_checks(paras)
    \* ---- infer_process_and_checklist (app.py) ----
    p_pc,          \* "start" | "done"
    p_checklists,  \* CHECKLISTS, loaded from checklist.json
    p_doc_types,   \* the doc_types argument
    p_result,      \* the returned dict
    \* ---- SimpleRAGIndex (rag.py) ----
    g_index,       \* self.index: <<>> (None) or <<embeddings>>
    g_texts,       \* self.texts
    g_built,       \* history: TRUE once a build_from_folder call returned
    g_failed,      \* history: TRUE once a build_from_folder call raised
    g_last,        \* outcome of the last retrieve call
    g_calls,       \* number of calls made (bounded)
    \* ---- analyze_documents / llm_review (app.py, checker.py) ----
    a_pc,          \* "next_doc" | "llm" | "finish_doc" | "done"
    a_paths,       \* saved_paths: the batch of documents (native paragraphs)
    a_use_llm,     \* use_llm argument
    a_rag,         \* module-level rag_index: FALSE = None, TRUE = built
    a_key,         \* checker.OPENAI_API_KEY is set (a credential is configured)
    a_d,           \* position of the for-loop over saved_paths (1-based)
    a_paras,       \* paras of the current document
    a_doc_type,    \* doc_type of the current document
    a_issues,      \* issues of the current document
    a_li,          \* position of llm_review's loop over paragraphs (1-based)
    a_llm_issues,  \* llm_review's local issues list
    a_calls,       \* history: <<idx, outcome kind>> of each reasoning call
    a_doc_types,   \* doc_types
    a_annotations, \* all_annotations (per path)
    a_all_issues,  \* all_issues
    a_summary,     \* summary
    a_parts,       \* history: per document <<#per-paragraph, #document-level, #reviewer>>
    a_result       \* the returned result, <<>> until built

writerVars  == <<w_pc, w_src, w_doc, w_anns, w_i, w_saved>>
rulesVars   == <<r_pc, r_native, r_paras, r_issues, r_issues2>>
processVars == <<p_pc, p_checklists, p_doc_types, p_result>>
ragVars     == <<g_index, g_texts, g_built, g_failed, g_last, g_calls>>
analyzeVars == <<a_pc, a_paths, a_use_llm, a_rag, a_key, a_d, a_paras, a_doc_type,
                 a_issues, a_li, a_llm_issues, a_calls, a_doc_types,
                 a_annotations, a_all_issues, a_summary, a_parts, a_result>>
vars == <<writerVars, rulesVars, processVars, ragVars, analyzeVars>>

(***************************************************************************)
(* Generic helpers                                                         *)
(***************************************************************************)
None == <<>>
Some(x) == <<x>>

Min(a, b) == IF a <= b THEN a ELSE b

\* All sequences over S of length 0..n
SeqsUpTo(S, n) == UNION {[1..k -> S] : k \in 0..n}

RECURSIVE Flatten(_)
\* "".join(parts): concatenation of a sequence of texts
Flatten(parts) ==
    IF parts = <<>> THEN <<>> ELSE Head(parts) \o Flatten(Tail(parts))

RECURSIVE Join(_, _)
\* sep.join(parts)
Join(sep, parts) ==
    IF parts = <<>> THEN <<>>
    ELSE IF Len(parts) = 1 THEN parts[1]
    ELSE parts[1] \o sep \o Join(sep, Tail(parts))

\* Python `needle in hay` on str
Contains(hay, needle) ==
    \E i \in 1..(Len(hay) - Len(needle) + 1) :
        SubSeq(hay, i, i + Len(needle) - 1) = needle

IsSpace(tok) == tok \in {" ", "\t", "\n"}

RECURSIVE LStrip(_)
LStrip(t) == IF t # <<>> /\ IsSpace(Head(t)) THEN LStrip(Tail(t)) ELSE t

RECURSIVE RStrip(_)
RStrip(t) ==
    IF t # <<>> /\ IsSpace(t[Len(t)]) THEN RStrip(SubSeq(t, 1, Len(t) - 1)) ELSE t

\* str.strip()
Strip(t) == RStrip(LStrip(t))

\* str(i) for the small integers the model uses
IntStr(i) ==
    CASE i = 0 -> "0" [] i = 1 -> "1" [] i = 2 -> "2" [] i = 3 -> "3"
      [] i = 4 -> "4" [] i = 5 -> "5" [] i = 6 -> "6" [] i = 7 -> "7"
      [] i = 8 -> "8" [] i = 9 -> "9" [] OTHER -> "n"

(***************************************************************************)
(* docx_utils.py : insert_comment_simulation                               *)
(* A paragraph is [orig, runs]: runs is the sequence of its runs' texts    *)
(* and para.text their concatenation.  orig is the paragraph object's      *)
(* identity: its index in the source document, -1 for a paragraph the      *)
(* writer itself inserted.  Run fonts (italic, Pt(9)) are not modelled.    *)
(***************************************************************************)
ParaText(para) == Flatten(para.runs)

\* f"  [COMMENT: {comment}]"
CommentText(comment) == <<"  [COMMENT: ">> \o comment \o <<"]">>

\* Python truthiness of ann.get("match_text"): None and "" are falsy
Truthy(match_text) == match_text # None /\ match_text[1] # <<>>

\* para.insert_paragraph_before(""): a new empty paragraph at position pos
InsertParagraphBefore(d, pos) ==
    SubSeq(d, 1, pos - 1) \o <<[orig |-> -1, runs |-> <<>>]>> \o SubSeq(d, pos, Len(d))

\* One iteration of the for-loop over annotations (lines 46-80)
ApplyAnnotation(d, ann) ==
    LET idx == ann.paragraph_index IN
    IF idx < 0 \/ idx >= Len(d) THEN d
    ELSE
        LET para   == d[idx + 1]
            found  == Truthy(ann.match_text)
                        /\ \E k \in 1..Len(para.runs) :
                              Contains(para.runs[k], ann.match_text[1])
            runs1  == IF found THEN para.runs ELSE Append(para.runs, <<>>)
            runs2  == Append(runs1, CommentText(ann.comment))
            d2     == [d EXCEPT ![idx + 1].runs = runs2]
        IN  IF Truthy(ann.match_text) THEN d2
            ELSE InsertParagraphBefore(d2, idx + 1)

RECURSIVE InsertCommentSimulation(_, _)
\* The whole function: the document saved at out_path
InsertCommentSimulation(d, anns) ==
    IF anns = <<>> THEN d
    ELSE InsertCommentSimulation(ApplyAnnotation(d, Head(anns)), Tail(anns))

\* Document(in_path): paragraph objects of a stored native paragraph list
LoadDocument(native) ==
    [k \in 1..Len(native) |-> [orig |-> k - 1, runs |-> native[k]]]

MaxWriterParas == 2
MaxAnnotations == 2

WriterRuns == {<<>>, <<<<"A">>>>, <<<<"A">>, <<" ", "B">>>>}
WriterMatchTexts == {None, Some(<<>>), Some(<<"B">>)}
WriterComments == {<<"c1">>, <<"c2">>}
WriterAnnotations ==
    [paragraph_index : -1..(MaxWriterParas + 1),
     match_text : WriterMatchTexts,
     comment : WriterComments]

WriterIdle ==
    /\ w_pc = "idle" /\ w_src = <<>> /\ w_doc = <<>>
    /\ w_anns = <<>> /\ w_i = 0 /\ w_saved = <<>>

WriterInit ==
    /\ w_pc = "loop"
    /\ w_src \in SeqsUpTo(WriterRuns, MaxWriterParas)
    /\ w_doc = LoadDocument(w_src)
    /\ w_anns \in SeqsUpTo(WriterAnnotations, MaxAnnotations)
    /\ w_i = 1
    /\ w_saved = <<>>

WriterStep ==
    /\ w_pc = "loop"
    /\ w_i <= Len(w_anns)
    /\ w_doc' = ApplyAnnotation(w_doc, w_anns[w_i])
    /\ w_i' = w_i + 1
    /\ UNCHANGED <<w_pc, w_src, w_anns, w_saved>>

WriterSave ==
    /\ w_pc = "loop"
    /\ w_i > Len(w_anns)
    /\ w_saved' = w_doc
    /\ w_pc' = "saved"
    /\ UNCHANGED <<w_src, w_doc, w_anns, w_i>>

(***************************************************************************)
(* Regular expressions of checker.py.  A pattern is [lb, toks, rb]: toks   *)
(* is the literal symbol sequence ("\\s+" stands for one or more           *)
(* whitespace symbols), lb / rb say whether it starts / ends with \b.      *)
(* A symbol is a word symbol unless it is whitespace or punctuation; \b    *)
(* holds between a word symbol and a non-word symbol or the text's end.    *)
(* Every search in checker.py is made with re.IGNORECASE.                  *)
(***************************************************************************)
Pat(lb, toks, rb) == [lb |-> lb, toks |-> toks, rb |-> rb]

AMBIGUOUS_TERMS == <<
    Pat(TRUE, <<"may">>, TRUE),
    Pat(TRUE, <<"possible">>, TRUE),
    Pat(TRUE, <<"subject", " ", "to">>, TRUE),
    Pat(TRUE, <<"as", " ", "appropriate">>, TRUE),
    Pat(TRUE, <<"where", " ", "practicable">>, TRUE) >>

JURISDICTION_PATTERNS == <<
    Pat(FALSE, <<"ADGM">>, FALSE),
    Pat(FALSE, <<"Abu", " ", "Dhabi", " ", "Global", " ", "Market">>, FALSE),
    Pat(FALSE, <<"ADGM", " ", "Courts">>, FALSE),
    Pat(TRUE, <<"Abu", " ", "Dhabi">>, TRUE) >>

FEDERAL_COURTS_PATTERNS == <<
    Pat(FALSE, <<"UAE", " ", "Federal", " ", "Courts">>, FALSE),
    Pat(FALSE, <<"Federal", " ", "Courts", " ", "of", " ", "the", " ", "UAE">>, FALSE),
    Pat(TRUE, <<"UAE", " ", "Courts">>, TRUE) >>

SIGNATURE_PATTERNS == <<
    Pat(FALSE, <<"Signature", ":">>, FALSE),
    Pat(FALSE, <<"Signed", " ", "by">>, FALSE),
    Pat(FALSE, <<"Signatory">>, FALSE),
    Pat(FALSE, <<"Signature", "\\s+", "of">>, FALSE) >>

\* str.lower() of one symbol (case folding under re.IGNORECASE)
Lower(tok) ==
    CASE tok = "UAE" -> "uae" [] tok = "Federal" -> "federal"
      [] tok = "Courts" -> "courts" [] tok = "ADGM" -> "adgm"
      [] tok = "Abu" -> "abu" [] tok = "Dhabi" -> "dhabi"
      [] tok = "Global" -> "global" [] tok = "Market" -> "market"
      [] tok = "Signature" -> "signature" [] tok = "Signed" -> "signed"
      [] tok = "Signatory" -> "signatory" [] tok = "May" -> "may"
      [] tok = "MAY" -> "may" [] tok = "Articles" -> "articles"
      [] tok = "Association" -> "association" [] tok = "Memorandum" -> "memorandum"
      [] tok = "The" -> "the" [] tok = "Register" -> "register"
      [] tok = "Members" -> "members"
      [] OTHER -> tok

LowerText(t) == [k \in 1..Len(t) |-> Lower(t[k])]

IsWord(tok) == ~IsSpace(tok) /\ tok \notin {":", ".", ",", ";"}

RECURSIVE MatchEnds(_, _, _)
\* Positions just after a match of toks that starts at position i of text
MatchEnds(toks, text, i) ==
    IF toks = <<>> THEN {i}
    ELSE IF Head(toks) = "\\s+" THEN
        UNION { MatchEnds(Tail(toks), text, j) :
                  j \in { j \in (i + 1)..(Len(text) + 1) :
                            \A m \in i..(j - 1) : IsSpace(text[m]) } }
    ELSE IF i <= Len(text) /\ Lower(text[i]) = Lower(Head(toks))
        THEN MatchEnds(Tail(toks), text, i + 1)
        ELSE {}

\* \b at the gap before position i (between text[i-1] and text[i])
Boundary(text, i) ==
    LET before == i > 1 /\ IsWord(text[i - 1])
        after  == i <= Len(text) /\ IsWord(text[i])
    IN  before # after

\* re.search(pattern, text, re.IGNORECASE) is not None
ReSearch(pat, text) ==
    \E i \in 1..Len(text) :
        /\ Lower(text[i]) = Lower(pat.toks[1])    \* every pattern starts with a literal
        /\ pat.lb => Boundary(text, i)
        /\ \E j \in MatchEnds(pat.toks, text, i) : pat.rb => Boundary(text, j)

\* re.search("|".join(patterns), text, re.IGNORECASE) is not None
ReSearchAny(pats, text) == \E k \in 1..Len(pats) : ReSearch(pats[k], text)

\* pattern.strip('\\b'): the pattern without its \b anchors
PatternLabel(pat) == pat.toks

(***************************************************************************)
(* docx_utils.py : extract_structured_text                                 *)
(* native is doc.paragraphs as a sequence of run-text sequences.           *)
(* The result is a sequence of <<index, text>> pairs.                      *)
(***************************************************************************)
RECURSIVE ExtractFrom(_, _)
\* The for-loop over enumerate(doc.paragraphs), from 0-based position i on
ExtractFrom(native, i) ==
    IF i >= Len(native) THEN <<>>
    ELSE LET text == Strip(Flatten(native[i + 1]))
         IN  (IF text # <<>> THEN << <<i, text>> >> ELSE <<>>)
                \o ExtractFrom(native, i + 1)

RECURSIVE ExtractFiltered(_, _, _)
\* Variant: indices counted over the surviving paragraphs only
ExtractFiltered(native, i, n) ==
    IF i >= Len(native) THEN <<>>
    ELSE LET text == Strip(Flatten(native[i + 1]))
         IN  IF text # <<>>
                THEN << <<n, text>> >> \o ExtractFiltered(native, i + 1, n + 1)
                ELSE ExtractFiltered(native, i + 1, n)

extract_filtered_positions(native) == ExtractFiltered(native, 0, 0)

extract_structured_text(native) == ExtractFrom(native, 0)

(***************************************************************************)
(* checker.py : heuristic_checks, document_level_checks                    *)
(* A Finding is a dict: a function from key names to values.               *)
(***************************************************************************)
FederalFinding(idx) ==
    [document_index_paragraph |-> Some(idx),
     issue |-> <<"References UAE Federal Courts instead of ADGM">>,
     section |-> <<"Paragraph ", IntStr(idx)>>,
     severity |-> "High",
     suggestion |-> <<"Replace references to UAE Federal Courts with ADGM Courts (per ADGM Companies Regulations).">>]

AmbiguousFinding(idx, pat) ==
    [document_index_paragraph |-> Some(idx),
     issue |-> <<"Ambiguous language: contains '">> \o PatternLabel(pat) \o <<"'">>,
     section |-> <<"Paragraph ", IntStr(idx)>>,
     severity |-> "Medium",
     suggestion |-> <<"Consider clarifying to explicit obligation or remove discretionary terms.">>]

RECURSIVE AmbiguousFrom(_, _, _)
\* The inner for-loop over AMBIGUOUS_TERMS, from pattern k on
AmbiguousFrom(idx, text, k) ==
    IF k > Len(AMBIGUOUS_TERMS) THEN <<>>
    ELSE (IF ReSearch(AMBIGUOUS_TERMS[k], text)
            THEN <<AmbiguousFinding(idx, AMBIGUOUS_TERMS[k])>> ELSE <<>>)
            \o AmbiguousFrom(idx, text, k + 1)

\* Variant: the jurisdiction list searched in place of the federal-courts list
ParagraphChecksWrongList(idx, text) ==
    (IF ReSearchAny(JURISDICTION_PATTERNS, text)
        THEN <<FederalFinding(idx)>> ELSE <<>>)
        \o AmbiguousFrom(idx, text, 1)

\* The body of heuristic_checks' loop for one (idx, text)
ParagraphChecks(idx, text) ==
    (IF ReSearchAny(FEDERAL_COURTS_PATTERNS, text)
        THEN <<FederalFinding(idx)>> ELSE <<>>)
        \o AmbiguousFrom(idx, text, 1)

RECURSIVE heuristic_checks(_)
heuristic_checks(paragraphs) ==
    IF paragraphs = <<>> THEN <<>>
    ELSE ParagraphChecks(paragraphs[1][1], paragraphs[1][2])
            \o heuristic_checks(Tail(paragraphs))

\* "\n".join([t for _, t in paragraphs])
CombinedText(paragraphs) ==
    Join(<<"\n">>, [k \in 1..Len(paragraphs) |-> paragraphs[k][2]])

NoSignatureFinding ==
    [document_index_paragraph |-> None,
     issue |-> <<"No signatory or signature block detected">>,
     section |-> <<"End of document">>,
     severity |-> "High",
     suggestion |-> <<"Add a clearly labelled signature block for authorized signatories with name, title and date.">>]

NoJurisdictionFinding ==
    [document_index_paragraph |-> None,
     issue |-> <<"Jurisdiction not specified as ADGM">>,
     section |-> <<"Governing Law / Jurisdiction clause">>,
     severity |-> "High",
     suggestion |-> <<"Set governing law and jurisdiction to ADGM and ADGM Courts.">>]

document_level_checks(paragraphs) ==
    LET combined_text == CombinedText(paragraphs) IN
    (IF ~ReSearchAny(SIGNATURE_PATTERNS, combined_text)
        THEN <<NoSignatureFinding>> ELSE <<>>)
    \o (IF ~ReSearchAny(JURISDICTION_PATTERNS, combined_text)
        THEN <<NoJurisdictionFinding>> ELSE <<>>)

(***************************************************************************)
(* Extraction followed by the per-paragraph rule engine, on every document *)
(* of up to MaxNativeParas paragraphs over RuleParagraphs.                 *)
(***************************************************************************)
MaxNativeParas == 3

\* Sample paragraphs, each given by its runs
RuleParagraphs == {
    <<>>,
    << <<" ", "\t">> >>,
    << <<" ", "The", " ", "UAE", " ", "Federal", " ", "Courts">>, <<" ", "MAY", " ", "decide", ".", "\n">> >>,
    << <<"ADGM", " ", "Courts">> >>,
    << <<"may", "be", " ", "subject", " ", "to", " ", "review">> >>,
    << <<"uae", " ", "courts", " ", "where", " ", "practicable", ",", " ", "as", " ", "appropriate">> >>,
    << <<"Signed", " ", "by", " ", "x">> >> }

RulesIdle ==
    /\ r_pc = "idle" /\ r_native = <<>> /\ r_paras = <<>>
    /\ r_issues = <<>> /\ r_issues2 = <<>>

RulesInit ==
    /\ r_pc = "start"
    /\ r_native \in SeqsUpTo(RuleParagraphs, MaxNativeParas)
    /\ r_paras = <<>> /\ r_issues = <<>> /\ r_issues2 = <<>>

RulesExtract ==
    /\ r_pc = "start"
    /\ r_paras' = extract_structured_text(r_native)
    /\ r_pc' = "extracted"
    /\ UNCHANGED <<r_native, r_issues, r_issues2>>

RulesCheck ==
    /\ r_pc = "extracted"
    /\ r_issues' = heuristic_checks(r_paras)
    /\ r_pc' = "checked"
    /\ UNCHANGED <<r_native, r_paras, r_issues2>>

RulesCheckAgain ==
    /\ r_pc = "checked"
    /\ r_issues2' = heuristic_checks(r_paras)
    /\ r_pc' = "rechecked"
    /\ UNCHANGED <<r_native, r_paras, r_issues>>

(***************************************************************************)
(* app.py : infer_process_and_checklist                                    *)
(* CHECKLISTS is a dict from process name to the list of required          *)
(* document types: a function whose domain is the set of its keys.         *)
(***************************************************************************)
Range(seq) == {seq[k] : k \in 1..Len(seq)}

\* CHECKLISTS.get("Company Incorporation", [])
ChecklistGet(checklists, process) ==
    IF process \in DOMAIN checklists THEN checklists[process] ELSE <<>>

\* Variant: each required type counted once however often it is uploaded
CountMatchesDistinct(checklists, doc_types) ==
    Cardinality(Range(doc_types) \cap Range(ChecklistGet(checklists, "Company Incorporation")))

RECURSIVE CountMatches(_, _)
\* The for-loop of lines 73-76
CountMatches(checklists, doc_types) ==
    IF doc_types = <<>> THEN 0
    ELSE (IF Head(doc_types) \in Range(ChecklistGet(checklists, "Company Incorporation"))
            THEN 1 ELSE 0)
         + CountMatches(checklists, Tail(doc_types))

RECURSIVE Filter(_, _)
\* [d for d in required if d not in doc_types]
Filter(required, doc_types) ==
    IF required = <<>> THEN <<>>
    ELSE (IF Head(required) \notin Range(doc_types) THEN <<Head(required)>> ELSE <<>>)
            \o Filter(Tail(required), doc_types)

infer_process_and_checklist(checklists, doc_types) ==
    IF CountMatches(checklists, doc_types) >= 2 THEN
        LET required == checklists["Company Incorporation"] IN
        [process |-> "Company Incorporation",
         documents_uploaded |-> Len(doc_types),
         required_documents |-> Some(Len(required)),
         missing_documents |-> Filter(required, doc_types)]
    ELSE
        [process |-> "Unknown",
         documents_uploaded |-> Len(doc_types),
         required_documents |-> None,
         missing_documents |-> <<>>]

\* The labels detect_document_type can return (DOC_TYPE_KEYWORDS keys, fallback)
DocTypeLabels == {
    "Articles of Association", "Memorandum of Association",
    "Incorporation Application Form", "UBO Declaration Form",
    "Register of Members and Directors", "Unknown Document Type" }

\* The five incorporation documents, in checklist order
IncorporationRequired == <<
    "Articles of Association", "Memorandum of Association",
    "Incorporation Application Form", "UBO Declaration Form",
    "Register of Members and Directors" >>

\* Contents checklist.json may have
ChecklistTables == {
    [pr \in {"Company Incorporation"} |-> IncorporationRequired],
    [pr \in {"Company Incorporation", "Licensing"} |->
        IF pr = "Licensing" THEN <<"UBO Declaration Form">>
        ELSE <<"Memorandum of Association", "Articles of Association",
               "UBO Declaration Form">>],
    [pr \in {"Licensing"} |-> <<"Articles of Association", "Memorandum of Association">>] }

MaxUploads == 3

ProcessIdle ==
    /\ p_pc = "idle" /\ p_checklists = <<>> /\ p_doc_types = <<>> /\ p_result = <<>>

ProcessInit ==
    /\ p_pc = "start"
    /\ p_checklists \in ChecklistTables
    /\ p_doc_types \in SeqsUpTo(DocTypeLabels, MaxUploads)
    /\ p_result = <<>>

ProcessInfer ==
    /\ p_pc = "start"
    /\ p_result' = infer_process_and_checklist(p_checklists, p_doc_types)
    /\ p_pc' = "done"
    /\ UNCHANGED <<p_checklists, p_doc_types>>

(***************************************************************************)
(* rag.py : SimpleRAGIndex                                                 *)
(* A folder is a sequence of files [name, txt, raw] in os.listdir order.   *)
(* The sentence-transformer is a fixed function Encode from text to a      *)
(* vector (here of dimension 1); faiss.IndexFlatL2 is exact search by      *)
(* squared Euclidean distance, padding its answer with label -1 when the   *)
(* index holds fewer than k vectors.                                       *)
(***************************************************************************)
RECURSIVE SplitBlank(_, _)
\* raw.split("\n\n"): cur is the piece being read
SplitBlank(raw, cur) ==
    IF raw = <<>> THEN <<cur>>
    ELSE IF Len(raw) >= 2 /\ raw[1] = "\n" /\ raw[2] = "\n"
        THEN <<cur>> \o SplitBlank(SubSeq(raw, 3, Len(raw)), <<>>)
        ELSE SplitBlank(Tail(raw), Append(cur, Head(raw)))

RECURSIVE StripNonEmpty(_)
\* [chunk.strip() for chunk in pieces if chunk.strip()]
StripNonEmpty(pieces) ==
    IF pieces = <<>> THEN <<>>
    ELSE (IF Strip(Head(pieces)) # <<>> THEN <<Strip(Head(pieces))>> ELSE <<>>)
            \o StripNonEmpty(Tail(pieces))

RECURSIVE FolderTexts(_)
\* The texts list built by lines 24-35
FolderTexts(folder) ==
    IF folder = <<>> THEN <<>>
    ELSE LET f == Head(folder)
             chunks == StripNonEmpty(SplitBlank(f.raw, <<>>))
         IN  (IF ~f.txt THEN <<>>
              ELSE [k \in 1..Len(chunks) |-> <<"[", f.name, "] ">> \o chunks[k]])
                \o FolderTexts(Tail(folder))

\* Coordinate contributed by one symbol to the embedding
Weight(tok) ==
    CASE tok = "alpha" -> 1 [] tok = "beta" -> 4 [] tok = "gamma" -> 6
      [] tok = "delta" -> 4 [] OTHER -> 0

RECURSIVE Encode(_)
\* self.model.encode: the embedding of a text
Encode(text) == IF text = <<>> THEN 0 ELSE Weight(Head(text)) + Encode(Tail(text))

\* Squared Euclidean distance
L2(a, b) == (a - b) * (a - b)

\* Is vector i ranked before vector j for query q (ties by insertion order)
Closer(embs, q, i, j) ==
    \/ L2(embs[i], q) < L2(embs[j], q)
    \/ L2(embs[i], q) = L2(embs[j], q) /\ i < j

\* 1-based rank of vector i among embs for query q
Rank(embs, q, i) == 1 + Cardinality({j \in 1..Len(embs) : Closer(embs, q, j, i)})

\* self.index.search(q_emb, k): k <<label, distance>> pairs, labels 0-based
FaissSearch(embs, q, k) ==
    [r \in 1..k |->
        IF r <= Len(embs)
        THEN LET i == CHOOSE i \in 1..Len(embs) : Rank(embs, q, i) = r
             IN  <<i - 1, L2(embs[i], q)>>
        ELSE <<-1, 1000000>>]   \* padding: label -1, a huge distance

\* texts[i] with Python's indexing: a negative i counts from the end
PyIndex(texts, i) == IF i < 0 THEN texts[Len(texts) + i + 1] ELSE texts[i + 1]

RECURSIVE RetrieveLoopNoNegativeCheck(_, _)
\* Variant: the loop without the `i < 0` test, so padding labels index from the end
RetrieveLoopNoNegativeCheck(texts, hits) ==
    IF hits = <<>> THEN <<>>
    ELSE LET i == Head(hits)[1]
             dist == Head(hits)[2]
         IN  (IF i >= Len(texts) THEN <<>>
              ELSE << <<PyIndex(texts, i), dist>> >>)
                \o RetrieveLoopNoNegativeCheck(texts, Tail(hits))

RECURSIVE RetrieveLoop(_, _)
\* The for-loop of lines 51-54 over zip(I[0], D[0])
RetrieveLoop(texts, hits) ==
    IF hits = <<>> THEN <<>>
    ELSE LET i == Head(hits)[1]
             dist == Head(hits)[2]
         IN  (IF i < 0 \/ i >= Len(texts) THEN <<>>
              ELSE << <<PyIndex(texts, i), dist>> >>)
                \o RetrieveLoop(texts, Tail(hits))

\* Files a reference folder may hold
RagFiles == {
    [name |-> "a.txt", txt |-> TRUE,
     raw |-> <<"alpha", "\n", "\n", " ", "beta", "\n", "\n", "\n">>],
    [name |-> "B.TXT", txt |-> TRUE, raw |-> <<"gamma", "\n", "delta">>],
    [name |-> "e.txt", txt |-> TRUE, raw |-> <<" ", "\n", "\n", "\t">>],
    [name |-> "notes.md", txt |-> FALSE, raw |-> <<"alpha">>] }

RagQueries == {<<"alpha">>, <<"beta", " ", "x">>, <<"gamma", " ", "delta">>}

MaxFolderFiles == 2
MaxK == 3
MaxRagCalls == 3

RagFolders ==
    {f \in SeqsUpTo(RagFiles, MaxFolderFiles) :
        \A i, j \in 1..Len(f) : i # j => f[i].name # f[j].name}

NoRetrieve ==
    [called |-> FALSE, raised |-> FALSE, built |-> FALSE, k |-> 0, chunks |-> 0, out |-> <<>>]

RagIdle ==
    /\ g_index = None /\ g_texts = <<>> /\ g_built = FALSE /\ g_failed = FALSE
    /\ g_last = NoRetrieve /\ g_calls = -1

\* SimpleRAGIndex.__init__
RagInit ==
    /\ g_index = None /\ g_texts = <<>> /\ g_built = FALSE /\ g_failed = FALSE
    /\ g_last = NoRetrieve /\ g_calls = 0

\* build_from_folder returns: texts, embeddings and index are replaced
RagBuild ==
    /\ g_calls \in 0..(MaxRagCalls - 1)
    /\ \E folder \in RagFolders :
        LET texts == FolderTexts(folder) IN
        /\ texts # <<>>
        /\ g_texts' = texts
        /\ g_index' = Some([k \in 1..Len(texts) |-> Encode(texts[k])])
    /\ g_built' = TRUE
    /\ g_calls' = g_calls + 1
    /\ UNCHANGED <<g_failed, g_last>>

\* build_from_folder raises ValueError at line 37: nothing is assigned
RagBuildFails ==
    /\ g_calls \in 0..(MaxRagCalls - 1)
    /\ \E folder \in RagFolders : FolderTexts(folder) = <<>>
    /\ g_failed' = TRUE
    /\ g_calls' = g_calls + 1
    /\ UNCHANGED <<g_index, g_texts, g_built, g_last>>

\* retrieve(query, k) on a built index
RagRetrieve ==
    /\ g_calls \in 0..(MaxRagCalls - 1)
    /\ g_index # None
    /\ \E query \in RagQueries, k \in 1..MaxK :
        g_last' = [called |-> TRUE, raised |-> FALSE, built |-> TRUE, k |-> k,
                   chunks |-> Len(g_texts),
                   out |-> RetrieveLoop(g_texts, FaissSearch(g_index[1], Encode(query), k))]
    /\ g_calls' = g_calls + 1
    /\ UNCHANGED <<g_index, g_texts, g_built, g_failed>>

\* retrieve(query, k) while self.index is None: line 49 raises AttributeError
RagRetrieveUnbuilt ==
    /\ g_calls \in 0..(MaxRagCalls - 1)
    /\ g_index = None
    /\ \E query \in RagQueries, k \in 1..MaxK :
        g_last' = [called |-> TRUE, raised |-> TRUE, built |-> FALSE, k |-> k,
                   chunks |-> Len(g_texts), out |-> <<>>]
    /\ g_calls' = g_calls + 1
    /\ UNCHANGED <<g_index, g_texts, g_built, g_failed>>

(***************************************************************************)
(* app.py : detect_document_type                                           *)
(* `kw in txt` is a substring test on the lower-cased text.                *)
(***************************************************************************)
DOC_TYPE_KEYWORDS == <<
    [doc_type |-> "Articles of Association",
     kws |-> << <<"articles", " ", "of", " ", "association">>, <<"articles">>, <<"aoa">> >>],
    [doc_type |-> "Memorandum of Association",
     kws |-> << <<"memorandum", " ", "of", " ", "association">>, <<"memorandum">>,
                <<"moa">>, <<"mou">> >>],
    [doc_type |-> "Incorporation Application Form",
     kws |-> << <<"incorporation", " ", "application">>, <<"incorporation", " ", "form">> >>],
    [doc_type |-> "UBO Declaration Form",
     kws |-> << <<"ubo", " ", "declaration">>, <<"ubo", " ", "form">> >>],
    [doc_type |-> "Register of Members and Directors",
     kws |-> << <<"register", " ", "of", " ", "members">>,
                <<"register", " ", "of", " ", "directors">>,
                <<"register", " ", "of", " ", "members", " ", "and", " ", "directors">> >>] >>

RECURSIVE DetectFrom(_, _)
\* The for-loop over DOC_TYPE_KEYWORDS.items() from entry k on, then the fallbacks
DetectFrom(txt, k) ==
    IF k > Len(DOC_TYPE_KEYWORDS) THEN
        IF Contains(txt, <<"article">>) /\ Contains(txt, <<"association">>)
            THEN "Articles of Association"
        ELSE IF Contains(txt, <<"memorandum">>) THEN "Memorandum of Association"
        ELSE "Unknown Document Type"
    ELSE IF \E m \in 1..Len(DOC_TYPE_KEYWORDS[k].kws) :
                Contains(txt, DOC_TYPE_KEYWORDS[k].kws[m])
        THEN DOC_TYPE_KEYWORDS[k].doc_type
        ELSE DetectFrom(txt, k + 1)

detect_document_type(text) == DetectFrom(LowerText(text), 1)

(***************************************************************************)
(* checker.py : llm_review                                                 *)
(* The reasoning capability (call_llm) either raises with a detail text or *)
(* returns a text.  json.loads is a table over the texts the model's       *)
(* capability can return: a parsed value is [kind, items]; an item of a    *)
(* list is [isdict, fields], fields being the object as a dict.            *)
(* The prompt and the retrieved context only feed the capability, whose    *)
(* answer is arbitrary, so they are not part of the state.                 *)
(***************************************************************************)
OutNotJson     == <<"The clause looks fine.">>
OutEmptyList   == <<"[]">>
OutObject      == <<"[{\"paragraph_index\": 7, \"issue\": \"I\", \"severity\": \"High\", \"suggestion\": \"S\"}]">>
OutForeignKey  == <<"[{\"document_index_paragraph\": 0, \"issue\": \"I\", \"severity\": \"Medium\", \"suggestion\": \"S\"}]">>
OutMixedList   == <<"[{\"issue\": \"I\", \"severity\": \"High\", \"suggestion\": \"S\"}, 5]">>
OutEmptyDict   == <<"{}">>

Invalid == [kind |-> "invalid", items |-> <<>>]

\* json.loads(out)
JsonLoads(out) ==
    CASE out = OutEmptyList -> [kind |-> "list", items |-> <<>>]
      [] out = OutObject ->
            [kind |-> "list", items |-> <<
                [isdict |-> TRUE,
                 fields |-> [paragraph_index |-> Some(7), issue |-> <<"I">>,
                             severity |-> "High", suggestion |-> <<"S">>]] >>]
      [] out = OutForeignKey ->
            [kind |-> "list", items |-> <<
                [isdict |-> TRUE,
                 fields |-> [document_index_paragraph |-> Some(0), issue |-> <<"I">>,
                             severity |-> "Medium", suggestion |-> <<"S">>]] >>]
      [] out = OutMixedList ->
            [kind |-> "list", items |-> <<
                [isdict |-> TRUE,
                 fields |-> [issue |-> <<"I">>, severity |-> "High", suggestion |-> <<"S">>]],
                [isdict |-> FALSE, fields |-> <<>>] >>]
      [] out = OutEmptyDict -> [kind |-> "dict", items |-> <<>>]
      [] OTHER -> Invalid

\* What call_llm can do: raise with a detail, or return one of the texts
LlmOutcomes ==
    {[raises |-> TRUE, text |-> <<"quota exceeded">>]}
    \cup {[raises |-> FALSE, text |-> t] :
            t \in {OutNotJson, OutEmptyList, OutObject, OutForeignKey,
                   OutMixedList, OutEmptyDict}}

\* call_llm (lines 89-103): without OPENAI_API_KEY it raises RuntimeError
\* before any request is made; with it, the capability answers
CallLlm(key) ==
    IF ~key
        THEN {[raises |-> TRUE, text |-> <<"OPENAI_API_KEY not set; LLM call unavailable.">>]}
        ELSE LlmOutcomes

\* The quick filter of line 112 of checker.py
Triggers(text) ==
    ReSearchAny(AMBIGUOUS_TERMS \o FEDERAL_COURTS_PATTERNS \o SIGNATURE_PATTERNS, text)

\* out[:400]
SuggestionLimit == 400
Truncate(out) == SubSeq(out, 1, Min(SuggestionLimit, Len(out)))

\* p["document_paragraph_idx"] = idx on a dict p
SetIdx(fields, idx) ==
    [key \in DOMAIN fields \cup {"document_paragraph_idx"} |->
        IF key = "document_paragraph_idx" THEN Some(idx) ELSE fields[key]]

NonJsonFinding(idx, out) ==
    [document_paragraph_idx |-> Some(idx),
     issue |-> <<"LLM review returned non-JSON output">>,
     severity |-> "Low",
     suggestion |-> Truncate(out)]

\* The inner try of lines 133-144: the Findings one returned text adds
ParsedFindings(idx, out) ==
    LET parsed == JsonLoads(out) IN
    IF parsed.kind = "invalid" THEN <<NonJsonFinding(idx, out)>>
    ELSE IF \E k \in 1..Len(parsed.items) : ~parsed.items[k].isdict
        \* the for-loop raises TypeError at the first item that is no dict
        THEN <<NonJsonFinding(idx, out)>>
    ELSE IF parsed.kind \in {"list", "dict"}
        \* an empty dict: the loop body never runs, extend adds nothing
        THEN [k \in 1..Len(parsed.items) |-> SetIdx(parsed.items[k].fields, idx)]
    ELSE <<NonJsonFinding(idx, out)>>

\* Variant: a failed call swallowed without a Finding
FailureFindingsNone(idx, detail) == <<>>

\* The outer except of lines 145-151
FailureFindings(idx, detail) ==
    << [document_paragraph_idx |-> Some(idx),
        issue |-> <<"LLM call failed">>,
        severity |-> "Low",
        suggestion |-> detail] >>

\* The Findings one reasoning call adds to llm_review's issues
CallFindings(idx, outcome) ==
    IF outcome.raises THEN FailureFindings(idx, outcome.text)
    ELSE ParsedFindings(idx, outcome.text)

(***************************************************************************)
(* app.py : analyze_documents                                              *)
(* A document of the batch is its native paragraph list; its path is its   *)
(* position in saved_paths (process_uploaded_files makes paths unique).    *)
(* NoneText / "None" stand for Python's None in a text / string slot.      *)
(***************************************************************************)
NoneText == <<"None">>

\* it.get(key) for an optional integer slot
IdxGet(it, key) == IF key \in DOMAIN it THEN it[key] ELSE None

\* it.get(key) for a text slot
TextGet(it, key) == IF key \in DOMAIN it THEN it[key] ELSE NoneText

\* it.get("severity")
SeverityGet(it) == IF "severity" \in DOMAIN it THEN it.severity ELSE "None"

\* Lines 122-130: the Annotation derived from one Finding
AnnotationOf(it, paras) ==
    LET given == IF IdxGet(it, "document_index_paragraph") # None
                    THEN IdxGet(it, "document_index_paragraph")
                    ELSE IdxGet(it, "document_paragraph_idx")
        para_idx == IF given # None THEN given[1]
                    ELSE IF paras # <<>> THEN Len(paras) - 1 ELSE 0
    IN  [paragraph_index |-> para_idx,
         match_text |-> None,
         comment |-> TextGet(it, "issue") \o <<": ">> \o TextGet(it, "suggestion")]

\* Lines 132-139: the aggregate entry of one Finding
IssueEntry(it, d, doc_type) ==
    [document |-> d,
     doc_type |-> doc_type,
     section |-> TextGet(it, "section"),
     issue |-> TextGet(it, "issue"),
     severity |-> SeverityGet(it),
     suggestion |-> TextGet(it, "suggestion")]

\* Variant: the two rule families in the opposite order
RuleIssuesDocumentLevelFirst(paras) ==
    document_level_checks(paras) \o heuristic_checks(paras)

\* Lines 105-106: issues = heuristic_checks(paras), extended by document_level_checks
RuleIssues(paras) == heuristic_checks(paras) \o document_level_checks(paras)

\* CHECKLISTS as checklist.json gives it: the five incorporation documents
CHECKLISTS == [pr \in {"Company Incorporation"} |-> IncorporationRequired]

\* Documents a batch is drawn from
AnalyzeDocs == {
    <<>>,
    << <<>>,
       << <<"The", " ", "UAE", " ", "Federal", " ", "Courts", " ", "decide">> >>,
       << <<"Signed", " ", "by", " ", "ADGM">> >> >>,
    << << <<"Articles", " ", "of", " ", "Association", " ", "may", " ", "change">> >>,
       << <<" ">> >>,
       << <<"ADGM", " ", "rules">> >> >>,
    << << <<" ", "Memorandum", " ">> >> >> }

MaxBatch == 2

AnalyzeIdle ==
    /\ a_pc = "idle" /\ a_paths = <<>> /\ a_use_llm = FALSE /\ a_rag = FALSE
    /\ a_key = FALSE
    /\ a_d = 0 /\ a_paras = <<>> /\ a_doc_type = "" /\ a_issues = <<>>
    /\ a_li = 0 /\ a_llm_issues = <<>> /\ a_calls = <<>> /\ a_doc_types = <<>>
    /\ a_annotations = <<>> /\ a_all_issues = <<>> /\ a_summary = <<>>
    /\ a_parts = <<>> /\ a_result = <<>>

\* Entry of analyze_documents(saved_paths, use_llm), lines 96-99
AnalyzeInit ==
    /\ a_pc = "next_doc"
    /\ a_paths \in SeqsUpTo(AnalyzeDocs, MaxBatch)
    /\ a_use_llm \in BOOLEAN
    /\ a_rag \in BOOLEAN
    /\ a_key \in BOOLEAN
    /\ a_d = 1 /\ a_paras = <<>> /\ a_doc_type = "" /\ a_issues = <<>>
    /\ a_li = 0 /\ a_llm_issues = <<>> /\ a_calls = <<>> /\ a_doc_types = <<>>
    /\ a_annotations = <<>> /\ a_all_issues = <<>> /\ a_summary = <<>>
    /\ a_parts = <<>> /\ a_result = <<>>

\* Lines 100-108: extraction, classification and the rule engine for the next path
AnalyzeBeginDoc ==
    /\ a_pc = "next_doc"
    /\ a_d <= Len(a_paths)
    /\ LET paras == extract_structured_text(a_paths[a_d])
           doc_type == detect_document_type(CombinedText(paras))
       IN  /\ a_paras' = paras
           /\ a_doc_type' = doc_type
           /\ a_doc_types' = Append(a_doc_types, doc_type)
           /\ a_issues' = RuleIssues(paras)
           /\ a_parts' = Append(a_parts, <<Len(heuristic_checks(paras)),
                                            Len(document_level_checks(paras)), 0>>)
    /\ a_li' = 1
    /\ a_llm_issues' = <<>>
    /\ a_calls' = <<>>
    /\ a_pc' = IF a_use_llm /\ a_rag THEN "llm" ELSE "finish_doc"
    /\ UNCHANGED <<a_paths, a_use_llm, a_rag, a_key, a_d, a_annotations, a_all_issues,
                   a_summary, a_result>>

\* llm_review: a paragraph that matches no trigger pattern is passed over
AnalyzeLlmSkip ==
    /\ a_pc = "llm"
    /\ a_li <= Len(a_paras)
    /\ ~Triggers(a_paras[a_li][2])
    /\ a_li' = a_li + 1
    /\ UNCHANGED <<a_pc, a_paths, a_use_llm, a_rag, a_key, a_d, a_paras, a_doc_type,
                   a_issues, a_llm_issues, a_calls, a_doc_types, a_annotations,
                   a_all_issues, a_summary, a_parts, a_result>>

\* llm_review: one reasoning call for a triggering paragraph, and its Findings
AnalyzeLlmCall ==
    /\ a_pc = "llm"
    /\ a_li <= Len(a_paras)
    /\ Triggers(a_paras[a_li][2])
    /\ \E outcome \in CallLlm(a_key) :
        LET idx == a_paras[a_li][1]
            found == CallFindings(idx, outcome)
        IN  /\ a_llm_issues' = a_llm_issues \o found
            /\ a_calls' = Append(a_calls, [idx |-> idx, outcome |-> outcome,
                                            emitted |-> Len(found)])
    /\ a_li' = a_li + 1
    /\ UNCHANGED <<a_pc, a_paths, a_use_llm, a_rag, a_key, a_d, a_paras, a_doc_type,
                   a_issues, a_doc_types, a_annotations, a_all_issues, a_summary,
                   a_parts, a_result>>

\* llm_review returns: line 111 extends issues with its result
AnalyzeLlmReturn ==
    /\ a_pc = "llm"
    /\ a_li > Len(a_paras)
    /\ a_issues' = a_issues \o a_llm_issues
    /\ a_parts' = [a_parts EXCEPT ![a_d][3] = Len(a_llm_issues)]
    /\ a_pc' = "finish_doc"
    /\ UNCHANGED <<a_paths, a_use_llm, a_rag, a_key, a_d, a_paras, a_doc_type, a_li,
                   a_llm_issues, a_calls, a_doc_types, a_annotations, a_all_issues,
                   a_summary, a_result>>

\* Lines 119-144: annotations, aggregate issues and summary of the document
AnalyzeFinishDoc ==
    /\ a_pc = "finish_doc"
    /\ a_annotations' = Append(a_annotations,
            [k \in 1..Len(a_issues) |-> AnnotationOf(a_issues[k], a_paras)])
    /\ a_all_issues' = a_all_issues \o
            [k \in 1..Len(a_issues) |-> IssueEntry(a_issues[k], a_d, a_doc_type)]
    /\ a_summary' = Append(a_summary,
            [file |-> a_d, type |-> a_doc_type, issues_found |-> Len(a_issues)])
    /\ a_d' = a_d + 1
    /\ a_pc' = "next_doc"
    /\ UNCHANGED <<a_paths, a_use_llm, a_rag, a_key, a_paras, a_doc_type, a_issues, a_li,
                   a_llm_issues, a_calls, a_doc_types, a_parts, a_result>>

\* Lines 146-164: process inference, the reviewed copies, the result
AnalyzeFinish ==
    /\ a_pc = "next_doc"
    /\ a_d > Len(a_paths)
    /\ LET proc == infer_process_and_checklist(CHECKLISTS, a_doc_types) IN
        a_result' = Some(
            [process |-> proc.process,
             documents_uploaded |-> proc.documents_uploaded,
             required_documents |-> proc.required_documents,
             missing_documents |-> proc.missing_documents,
             summary |-> a_summary,
             issues |-> a_all_issues,
             reviewed_files |->
                [d \in 1..Len(a_paths) |->
                    InsertCommentSimulation(LoadDocument(a_paths[d]), a_annotations[d])]])
    /\ a_pc' = "done"
    /\ UNCHANGED <<a_paths, a_use_llm, a_rag, a_key, a_d, a_paras, a_doc_type, a_issues,
                   a_li, a_llm_issues, a_calls, a_doc_types, a_annotations,
                   a_all_issues, a_summary, a_parts>>

(***************************************************************************)
(* Specifications                                                          *)
(***************************************************************************)
WriterNext ==
    \/ WriterStep /\ UNCHANGED <<rulesVars, processVars, ragVars, analyzeVars>>
    \/ WriterSave /\ UNCHANGED <<rulesVars, processVars, ragVars, analyzeVars>>

InitWriter == WriterInit /\ RulesIdle /\ ProcessIdle /\ RagIdle /\ AnalyzeIdle

SpecWriter == InitWriter /\ [][WriterNext]_vars

RulesNext ==
    \/ RulesExtract /\ UNCHANGED <<writerVars, processVars, ragVars, analyzeVars>>
    \/ RulesCheck /\ UNCHANGED <<writerVars, processVars, ragVars, analyzeVars>>
    \/ RulesCheckAgain /\ UNCHANGED <<writerVars, processVars, ragVars, analyzeVars>>

InitRules == RulesInit /\ WriterIdle /\ ProcessIdle /\ RagIdle /\ AnalyzeIdle

SpecRules == InitRules /\ [][RulesNext]_vars

ProcessNext ==
    ProcessInfer /\ UNCHANGED <<writerVars, rulesVars, ragVars, analyzeVars>>

InitProcess == ProcessInit /\ WriterIdle /\ RulesIdle /\ RagIdle /\ AnalyzeIdle

SpecProcess == InitProcess /\ [][ProcessNext]_vars

RagNext ==
    \/ RagBuild /\ UNCHANGED <<writerVars, rulesVars, processVars, analyzeVars>>
    \/ RagBuildFails /\ UNCHANGED <<writerVars, rulesVars, processVars, analyzeVars>>
    \/ RagRetrieve /\ UNCHANGED <<writerVars, rulesVars, processVars, analyzeVars>>
    \/ RagRetrieveUnbuilt /\ UNCHANGED <<writerVars, rulesVars, processVars, analyzeVars>>

InitRag == RagInit /\ WriterIdle /\ RulesIdle /\ ProcessIdle /\ AnalyzeIdle

SpecRag == InitRag /\ [][RagNext]_vars

AnalyzeNext ==
    \/ AnalyzeBeginDoc /\ UNCHANGED <<writerVars, rulesVars, processVars, ragVars>>
    \/ AnalyzeLlmSkip /\ UNCHANGED <<writerVars, rulesVars, processVars, ragVars>>
    \/ AnalyzeLlmCall /\ UNCHANGED <<writerVars, rulesVars, processVars, ragVars>>
    \/ AnalyzeLlmReturn /\ UNCHANGED <<writerVars, rulesVars, processVars, ragVars>>
    \/ AnalyzeFinishDoc /\ UNCHANGED <<writerVars, rulesVars, processVars, ragVars>>
    \/ AnalyzeFinish /\ UNCHANGED <<writerVars, rulesVars, processVars, ragVars>>

InitAnalyze == AnalyzeInit /\ WriterIdle /\ RulesIdle /\ ProcessIdle /\ RagIdle

SpecAnalyze == InitAnalyze /\ [][AnalyzeNext]_vars

(***************************************************************************)
(* Claims about the Annotation Writer (SpecWriter)                         *)
(***************************************************************************)
\* Is the annotation's index within the source document's native paragraph count
NativeInRange(ann) == ann.paragraph_index >= 0 /\ ann.paragraph_index < Len(w_src)

RECURSIVE ExpectedFragments(_, _)
\* The fragments of the annotations addressed to native index i, in list order
ExpectedFragments(anns, i) ==
    IF anns = <<>> THEN <<>>
    ELSE (IF Head(anns).paragraph_index = i THEN CommentText(Head(anns).comment) ELSE <<>>)
            \o ExpectedFragments(Tail(anns), i)

IsCommentRun(run) == run # <<>> /\ run[1] = "  [COMMENT: "

RECURSIVE CommentRuns(_)
\* Number of comment runs in a document
CommentRuns(d) ==
    IF d = <<>> THEN 0
    ELSE Cardinality({k \in 1..Len(Head(d).runs) : IsCommentRun(Head(d).runs[k])})
            + CommentRuns(Tail(d))

\* C1: in the saved document, the paragraph that sat at native index i of the
\* source holds its original text followed by exactly the comment fragments of
\* the annotations addressed to i (first, second and later ones alike), and by
\* no other annotation's fragment.
ClaimC1 ==
    w_pc = "saved" =>
        \A i \in 0..(Len(w_src) - 1) :
            \E p \in 1..Len(w_saved) :
                /\ w_saved[p].orig = i
                /\ ParaText(w_saved[p]) = Flatten(w_src[i + 1]) \o ExpectedFragments(w_anns, i)

\* C2: an annotation whose index is negative or >= the native paragraph count
\* adds no comment anywhere, whatever was applied before it: the saved document
\* holds one comment per in-range annotation, and with only out-of-range
\* annotations its paragraphs are those of the source.
ClaimC2 ==
    w_pc = "saved" =>
        /\ CommentRuns(w_saved) = Cardinality({k \in 1..Len(w_anns) : NativeInRange(w_anns[k])})
        /\ (\A k \in 1..Len(w_anns) : ~NativeInRange(w_anns[k])) =>
                /\ Len(w_saved) = Len(w_src)
                /\ \A q \in 1..Len(w_src) : ParaText(w_saved[q]) = Flatten(w_src[q])

(***************************************************************************)
(* Claims about the Orchestrator and the Grounded Reviewer (SpecAnalyze)   *)
(***************************************************************************)
\* The document whose loop body has just completed, 0 if none has
FinishedDoc == IF a_pc \in {"next_doc", "done"} /\ a_d > 1 THEN a_d - 1 ELSE 0

\* A Finding that carries no paragraph index under either key
IsDocumentLevel(it) ==
    IdxGet(it, "document_index_paragraph") = None /\ IdxGet(it, "document_paragraph_idx") = None

\* C3: the Annotation of a document-level Finding is addressed to the last valid
\* paragraph index of the document in the native index space (the last
\* extracted paragraph's index, or the native count minus one), or to 0 when
\* nothing was extracted.
ClaimC3 ==
    FinishedDoc > 0 =>
        \A k \in 1..Len(a_issues) :
            IsDocumentLevel(a_issues[k]) =>
                LET idx == a_annotations[FinishedDoc][k].paragraph_index
                    native == a_paths[FinishedDoc]
                IN  IF a_paras = <<>> THEN idx = 0
                    ELSE idx \in {a_paras[Len(a_paras)][1], Len(native) - 1}

\* llm_review ran (or is running) for the current document
LlmRan == a_use_llm /\ a_rag /\ a_li >= 1

\* Number of paragraphs llm_review's loop has gone through
Processed ==
    IF a_pc = "llm" THEN a_li - 1
    ELSE IF LlmRan THEN Len(a_paras) ELSE 0

\* The text matches a trigger pattern of one of the three families
MatchesTrigger(text) ==
    \/ ReSearchAny(AMBIGUOUS_TERMS, text)
    \/ ReSearchAny(FEDERAL_COURTS_PATTERNS, text)
    \/ ReSearchAny(SIGNATURE_PATTERNS, text)

TriggeringPair(pair) == MatchesTrigger(pair[2])

\* The triggering paragraphs among those gone through, in order
TriggeringSoFar == SelectSeq(SubSeq(a_paras, 1, Processed), TriggeringPair)

RECURSIVE EmittedBefore(_)
\* Number of Findings emitted by the calls before call c
EmittedBefore(c) == IF c <= 1 THEN 0 ELSE a_calls[c - 1].emitted + EmittedBefore(c - 1)

\* C4: a reasoning call that raises yields exactly one Low-severity Finding with
\* the paragraph's index and the failure detail as suggestion; the loop goes on
\* (every triggering paragraph gone through had its call, in order); when every
\* call raised, the Findings are as many as the triggering paragraphs; no
\* Finding belongs to a non-triggering paragraph.
ClaimC4 ==
    LET trig == TriggeringSoFar IN
    /\ Len(a_calls) = Len(trig)
    /\ \A c \in 1..Len(a_calls) :
        /\ a_calls[c].idx = trig[c][1]
        /\ a_calls[c].outcome.raises =>
            /\ a_calls[c].emitted = 1
            /\ LET f == a_llm_issues[EmittedBefore(c) + 1] IN
                /\ f.document_paragraph_idx = Some(a_calls[c].idx)
                /\ f.severity = "Low"
                /\ f.suggestion = a_calls[c].outcome.text
    /\ (\A c \in 1..Len(a_calls) : a_calls[c].outcome.raises) =>
            Len(a_llm_issues) = Len(trig)
    /\ \A j \in 1..Len(a_llm_issues) :
            \E c \in 1..Len(trig) :
                a_llm_issues[j].document_paragraph_idx = Some(trig[c][1])

\* Two triggering paragraphs, both calls raised, one Finding each
WitnessC4 ==
    /\ a_pc = "finish_doc"
    /\ Len(a_calls) = 2
    /\ a_calls[1].outcome.raises /\ a_calls[2].outcome.raises
    /\ Len(a_llm_issues) = 2
    /\ Len(a_paras) = 2

\* The parsed value is a list all of whose items are objects
IsObjectList(parsed) ==
    parsed.kind = "list" /\ \A k \in 1..Len(parsed.items) : parsed.items[k].isdict

\* C5: for a call that returned, a text that parses as a list of objects yields
\* one Finding per object, each annotated at the originating paragraph whatever
\* index-like field the object carries; any other text yields exactly one
\* Low-severity Finding on that paragraph with the first 400 characters of the
\* raw output as suggestion.
ClaimC5 ==
    (FinishedDoc > 0 /\ LlmRan) =>
        \A c \in 1..Len(a_calls) :
            ~a_calls[c].outcome.raises =>
                LET out == a_calls[c].outcome.text
                    parsed == JsonLoads(out)
                    off == a_parts[FinishedDoc][1] + a_parts[FinishedDoc][2] + EmittedBefore(c)
                IN  IF IsObjectList(parsed)
                    THEN /\ a_calls[c].emitted = Len(parsed.items)
                         /\ \A j \in 1..Len(parsed.items) :
                                a_annotations[FinishedDoc][off + j].paragraph_index = a_calls[c].idx
                    ELSE /\ a_calls[c].emitted = 1
                         /\ a_issues[off + 1].severity = "Low"
                         /\ a_issues[off + 1].suggestion = Truncate(out)
                         /\ a_annotations[FinishedDoc][off + 1].paragraph_index = a_calls[c].idx

\* Which detector family made an aggregate entry, read from its section label
EntryClass(e) ==
    IF e.section[1] = "Paragraph " THEN "paragraph"
    ELSE IF e.section \in {<<"End of document">>, <<"Governing Law / Jurisdiction clause">>}
        THEN "document"
    ELSE "reviewer"

\* Position in all_issues of the first entry of document d, minus one
RECURSIVE IssuesBefore(_)
IssuesBefore(d) == IF d <= 1 THEN 0 ELSE a_summary[d - 1].issues_found + IssuesBefore(d - 1)

\* C6: the aggregate issues are the documents' Findings in document order; in
\* each document the per-paragraph rule Findings come first, then the
\* document-level ones, then the reviewer's; each summary entry's issues_found
\* counts exactly that document's aggregate entries (nothing dropped or doubled).
ClaimC6 ==
    LET n == Len(a_summary) IN
    /\ Len(a_all_issues) = IssuesBefore(n + 1)
    /\ \A d \in 1..n :
        LET np == a_parts[d][1]
            ndl == a_parts[d][2]
            nrev == a_parts[d][3]
        IN  /\ a_summary[d].file = d
            /\ a_summary[d].issues_found = np + ndl + nrev
            /\ Cardinality({k \in 1..Len(a_all_issues) : a_all_issues[k].document = d})
                    = a_summary[d].issues_found
            /\ \A j \in 1..a_summary[d].issues_found :
                LET e == a_all_issues[IssuesBefore(d) + j] IN
                /\ e.document = d
                /\ EntryClass(e) = IF j <= np THEN "paragraph"
                                   ELSE IF j <= np + ndl THEN "document"
                                   ELSE "reviewer"
    /\ a_pc = "done" =>
        /\ n = Len(a_paths)
        /\ a_result[1].issues = a_all_issues
        /\ a_result[1].summary = a_summary

\* A finished batch of two documents, the first with Findings of all three kinds
WitnessC6 ==
    /\ a_pc = "done"
    /\ Len(a_paths) = 2
    /\ a_parts[1][1] >= 1 /\ a_parts[1][2] >= 1 /\ a_parts[1][3] >= 1
    /\ a_summary[2].issues_found >= 2

(***************************************************************************)
(* Claim about Process Inference (SpecProcess)                             *)
(***************************************************************************)
\* The required list of "Company Incorporation", empty when the table has none
RequiredOf(checklists) ==
    IF "Company Incorporation" \in DOMAIN checklists
        THEN checklists["Company Incorporation"] ELSE <<>>

\* Position of a type in the required list
PositionIn(required, t) == CHOOSE k \in 1..Len(required) : required[k] = t

\* C7: every uploaded entry that is a required incorporation type counts
\* (duplicates separately); with a count of at least 2 the process is "Company
\* Incorporation" and missing_documents is exactly the required types absent
\* from the upload, in required-list order; otherwise the process is "Unknown",
\* required_documents is absent and missing_documents is empty.  Two of five
\* required types uploaded leave exactly 3 missing.
ClaimC7 ==
    p_pc = "done" =>
        LET required == RequiredOf(p_checklists)
            count == Cardinality({k \in 1..Len(p_doc_types) : p_doc_types[k] \in Range(required)})
            missing == p_result.missing_documents
        IN  /\ p_result.documents_uploaded = Len(p_doc_types)
            /\ count >= 2 =>
                /\ p_result.process = "Company Incorporation"
                /\ p_result.required_documents = Some(Len(required))
                /\ Range(missing) = Range(required) \ Range(p_doc_types)
                /\ \A i, j \in 1..Len(missing) :
                        i < j => PositionIn(required, missing[i]) < PositionIn(required, missing[j])
            /\ count < 2 =>
                /\ p_result.process = "Unknown"
                /\ p_result.required_documents = None
                /\ missing = <<>>
            /\ (/\ required = IncorporationRequired
                /\ Cardinality(Range(p_doc_types) \cap Range(required)) = 2
                /\ count >= 2) => Len(missing) = 3

\* Two copies of one required type reach the threshold; four types are missing
WitnessC7 ==
    /\ p_pc = "done"
    /\ p_checklists["Company Incorporation"] = IncorporationRequired
    /\ p_doc_types = <<"Articles of Association", "Articles of Association">>
    /\ p_result.process = "Company Incorporation"
    /\ Len(p_result.missing_documents) = 4

(***************************************************************************)
(* Claims about the Paragraph Extractor and the Rule Engine (SpecRules)    *)
(***************************************************************************)
\* The native paragraph holds a symbol that is not whitespace
HasVisibleText(para) == \E k \in 1..Len(Flatten(para)) : ~IsSpace(Flatten(para)[k])

VisibleSymbols(text) == SelectSeq(text, LAMBDA tok : ~IsSpace(tok))

\* C8: the extracted indices strictly increase; each is a native position whose
\* paragraph has non-whitespace text, paired with that text trimmed (non-empty);
\* every such native paragraph appears (hence exactly once), no other does.
ClaimC8 ==
    r_pc # "start" =>
        /\ \A k, l \in 1..Len(r_paras) : k < l => r_paras[k][1] < r_paras[l][1]
        /\ \A k \in 1..Len(r_paras) :
            LET idx == r_paras[k][1]
                text == r_paras[k][2]
            IN  /\ idx \in 0..(Len(r_native) - 1)
                /\ text # <<>>
                /\ ~IsSpace(text[1]) /\ ~IsSpace(text[Len(text)])
                /\ Contains(Flatten(r_native[idx + 1]), text)
                /\ VisibleSymbols(text) = VisibleSymbols(Flatten(r_native[idx + 1]))
        /\ {r_paras[k][1] : k \in 1..Len(r_paras)}
                = {i \in 0..(Len(r_native) - 1) : HasVisibleText(r_native[i + 1])}

\* An empty and a whitespace-only paragraph precede the only surviving one
WitnessC8 ==
    /\ r_pc = "extracted"
    /\ Len(r_native) = 3
    /\ ~HasVisibleText(r_native[1]) /\ ~HasVisibleText(r_native[2])
    /\ Len(r_paras) = 1 /\ r_paras[1][1] = 2

\* The Findings of r_issues addressed to paragraph index idx, in order
FindingsOn(idx) == SelectSeq(r_issues, LAMBDA f : f.document_index_paragraph = Some(idx))

IsWrongJurisdiction(f) ==
    f.severity = "High" /\ f.issue = <<"References UAE Federal Courts instead of ADGM">>

\* C9: on each paragraph there is a High wrong-jurisdiction Finding iff the
\* paragraph matches a federal-courts trigger ("ADGM Courts" alone gives none,
\* "UAE Federal Courts" always one), one Medium Finding per ambiguous-language
\* trigger it matches, and nothing else; a second run gives the same list.
ClaimC9 ==
    r_pc \in {"checked", "rechecked"} =>
        /\ \A k \in 1..Len(r_paras) :
            LET idx == r_paras[k][1]
                text == r_paras[k][2]
                on == FindingsOn(idx)
                high == {j \in 1..Len(on) : on[j].severity = "High"}
                ambiguous == {m \in 1..Len(AMBIGUOUS_TERMS) : ReSearch(AMBIGUOUS_TERMS[m], text)}
            IN  /\ Cardinality(high) = IF ReSearchAny(FEDERAL_COURTS_PATTERNS, text) THEN 1 ELSE 0
                /\ \A j \in high : IsWrongJurisdiction(on[j])
                /\ Contains(LowerText(text), <<"uae", " ", "federal", " ", "courts">>)
                        => Cardinality(high) = 1
                /\ text = <<"ADGM", " ", "Courts">> => on = <<>>
                /\ \A m \in ambiguous :
                        Cardinality({j \in 1..Len(on) :
                            /\ on[j].severity = "Medium"
                            /\ on[j].issue = <<"Ambiguous language: contains '">>
                                                \o AMBIGUOUS_TERMS[m].toks \o <<"'">>}) = 1
                /\ Len(on) = Cardinality(high) + Cardinality(ambiguous)
        /\ \A j \in 1..Len(r_issues) :
                \E k \in 1..Len(r_paras) : r_issues[j].document_index_paragraph = Some(r_paras[k][1])
        /\ r_pc = "rechecked" => r_issues2 = r_issues

\* Checked twice: a federal-courts paragraph with "MAY", and "ADGM Courts" alone
WitnessC9 ==
    /\ r_pc = "rechecked"
    /\ Len(r_paras) = 2
    /\ r_paras[2][2] = <<"ADGM", " ", "Courts">>
    /\ Len(r_issues) = 2
    /\ r_issues[1].severity = "High" /\ r_issues[2].severity = "Medium"

(***************************************************************************)
(* Claim about the Retrieval Index (SpecRag)                               *)
(***************************************************************************)
\* The result of the last retrieve on a built index: at most k pairs, in
\* non-decreasing distance order, fewer than k only with fewer than k chunks
BuiltRetrieveOk ==
    (g_last.called /\ g_last.built) =>
        /\ ~g_last.raised
        /\ Len(g_last.out) <= g_last.k
        /\ \A i, j \in 1..Len(g_last.out) : i < j => g_last.out[i][2] <= g_last.out[j][2]
        /\ Len(g_last.out) = Min(g_last.k, g_last.chunks)

\* self.index is None exactly when no build_from_folder call has returned
UnbuiltIffNoBuild == (g_index = None) <=> ~g_built

ClaimC11 ==
    (~a_key \/ ~a_rag) =>
        /\ a_pc # "llm"
        /\ a_calls = <<>>
        /\ a_llm_issues = <<>>
        /\ \A k \in 1..Len(a_all_issues) : EntryClass(a_all_issues[k]) # "reviewer"

====
